---- MODULE Spec2Model ----
(***************************************************************************)
(* Wallet ledger and investment accrual engine of crypto-arbitrage-pro.    *)
(*                                                                         *)
(* The state is the content of the durable store (tables wallets,          *)
(* transactions, subscriptions, plans) plus the clock.  Each action is one *)
(* service call executed from its first to its last statement.             *)
(*                                                                         *)
(* Amounts are JavaScript numbers in the source.  Here they are integers   *)
(* counting 1/10000 of one unit of the asset, so that every constant of    *)
(* the source (0.0001 BTC, 0.001 BTC, 10 USDT, ...) is a whole number.     *)
(* Dates are whole days.                                                   *)
(*                                                                         *)
(* Every db.* call of the source catches its own error and returns null;   *)
(* a store failure is therefore a call that changes nothing and returns    *)
(* null.  An action takes the failing call (if any) as its input f.        *)
(***************************************************************************)
EXTENDS Integers, Sequences, FiniteSets, TLC

VARIABLES
    wallets,   \* table wallets: <<user_id, asset>> -> balance
    txs,       \* table transactions, in insertion order; the id is the index
    subs,      \* table subscriptions, in insertion order; the id is the index
    plans,     \* table plans: id -> row
    now,       \* the clock, in days
    budget,    \* number of store calls that may still fail
    last,      \* the last service call: its name, arguments and return value
    calls      \* the service calls in progress, suspended at an await

vars == <<wallets, txs, subs, plans, now, budget, last, calls>>

----------------------------------------------------------------------------
(* Bounds of the model                                                     *)

MaxTx == 3        \* rows the transactions table may hold (ledger)
MaxLog == 4       \* rows the transactions table may hold (accrual engine)
MaxSubs == 2      \* rows the subscriptions table holds at the start
MaxFaults == 1    \* store calls that may fail in one behaviour with failures

Owners == {"alice", "bob"}
Clients == {"alice"}                 \* owners who submit requests
Assets == {"USDT"}                   \* the asset of a request
ExchangeAssets == {"USDT", "BTC"}    \* the source and destination of an exchange
AllAssets == {"BTC", "ETH", "USDT", "USDC"}
CallIds == {1, 2}                    \* the calls that may be in progress together
RaceAmounts == {100000}              \* the amount of a deposit made concurrently
Instants == {0, 29, 30, 31}          \* the days at which calls are made
Principals == {3650000}              \* 365 USDT
DepositAmounts == {-100000, 100000, 1000000}
WithdrawAmounts == {100000, 99999}
ExchangeAmounts == {100000}
InvestAmounts == {1000000, 999999}
Rates == {2}                         \* conversion rates the rate feed returns

----------------------------------------------------------------------------
(* Program constants                                                       *)

GraceDays == 30
PenaltyPercent == 5
DaysPerYear == 365
ExchangeFeePerMille == 1

minAmounts == [a \in AllAssets |->
    CASE a = "BTC" -> 10 [] a = "ETH" -> 100 [] a = "USDT" -> 100000 [] a = "USDC" -> 100000]

getNetworkFee(asset) ==
    CASE asset = "BTC" -> 1
      [] asset = "ETH" -> 20
      [] asset = "USDT" -> 10000
      [] asset = "USDC" -> 10000
      [] OTHER -> 1

\* createDefaultWallets: one wallet per asset, balance 0.  db.createWallet
\* returns null on a store error, which createDefaultWallets ignores: bob's
\* USDT wallet was lost that way.
WalletIds == (Owners \X AllAssets) \ {<<"bob", "USDT">>}

PlanIds == {"debutant"}
PlanRates == {85, 170}               \* the apy an update of a plan may set

\* The seeded plan "Debutant"; apy is in tenths of a percent (8.5%).
InitPlans == [p \in PlanIds |->
    [duration_days |-> 30, apy |-> 85, min_amount |-> 1000000,
     max_amount |-> 50000000, is_active |-> TRUE]]

----------------------------------------------------------------------------
(* Rows and requests                                                       *)

Request(type, asset, amount, fromAsset, toAsset, planId) ==
    [type |-> type, asset |-> asset, amount |-> amount,
     fromAsset |-> fromAsset, toAsset |-> toAsset, planId |-> planId]

Tx(user, type, asset, amount, status, from, to, plan, notes) ==
    [user_id |-> user, type |-> type, asset |-> asset, amount |-> amount,
     status |-> status, from_asset |-> from, to_asset |-> to,
     plan_id |-> plan, notes |-> notes]

NoFault == [at |-> "none", sub |-> 0]
Fault(point, sid) == [at |-> point, sub |-> sid]
Fails(f, point, sid) == f.at = point /\ f.sub = sid

\* The record kept of a service call: the operation, the id of the row it
\* was made for (or inserted), what it returned and the store call that failed.
Call(op, id, ret, f) == [op |-> op, id |-> id, ret |-> ret, fault |-> f]

\* A call in progress: the operation, the await it is suspended at, and the
\* values its local variables hold.
Idle ==
    [op |-> "none", pc |-> "idle", user |-> "", amount |-> 0, tx |-> 0,
     found |-> FALSE, balance |-> 0, rows |-> <<>>, selected |-> {}, sub |-> 0,
     count |-> 0]

NoTerms == [refundAmount |-> 0, penalty |-> 0, daysSinceStart |-> 0]

hasWallet(w, user, asset) == <<user, asset>> \in DOMAIN w

----------------------------------------------------------------------------
(* DatabaseService                                                         *)

updateWalletBalance(w, id, balance, failed) ==
    IF failed THEN w ELSE [w EXCEPT ![id] = balance]

\* updateTransactionStatus that writes nothing.
updateTransactionStatusLost(t, id, status, failed) == t

updateTransactionStatus(t, id, status, failed) ==
    IF failed THEN t ELSE [t EXCEPT ![id].status = status]

createTransaction(t, row, failed) ==
    IF failed THEN t ELSE Append(t, row)

\* createNotification that lets the error of the insert escape.
createNotificationThrows(failed) == IF failed THEN "throw" ELSE "row"

\* db.createNotification: the error of the insert is caught, null is returned.
createNotification(failed) == IF failed THEN "null" ELSE "row"

\* db.createAuditLog: the error of the insert is caught, null is returned.
createAuditLog(failed) == IF failed THEN "null" ELSE "row"

\* Whether `await db.createNotification(...)` / `await db.createAuditLog(...)`
\* leaves the statement by an exception (the value returned is not used).
notificationThrows(f, sid) == createNotification(Fails(f, "notification", sid)) = "throw"

auditThrows(f) == createAuditLog(Fails(f, "audit", 0)) = "throw"

----------------------------------------------------------------------------
(* WalletService                                                           *)

\* validateTransaction without the test of the asset's minimum.
validateTransactionNoMinimum(w, userId, request) ==
    CASE request.type \in {"WITHDRAW", "EXCHANGE"} ->
            IF ~hasWallet(w, userId, request.asset) THEN "Wallet not found"
            ELSE IF w[<<userId, request.asset>>] < request.amount
                 THEN "Insufficient balance"
            ELSE ""
      [] request.type = "DEPOSIT" -> ""
      [] request.type = "INVEST" ->
            IF ~hasWallet(w, userId, request.asset)
                \/ w[<<userId, request.asset>>] < request.amount
            THEN "Insufficient balance for investment"
            ELSE ""
      [] OTHER -> ""

\* validateTransaction: "" when the request is valid, else the error.
validateTransaction(w, userId, request) ==
    CASE request.type \in {"WITHDRAW", "EXCHANGE"} ->
            IF ~hasWallet(w, userId, request.asset) THEN "Wallet not found"
            ELSE IF w[<<userId, request.asset>>] < request.amount
                 THEN "Insufficient balance"
            ELSE IF request.amount < minAmounts[request.asset]
                 THEN "Minimum amount"
            ELSE ""
      [] request.type = "DEPOSIT" -> ""
      [] request.type = "INVEST" ->
            IF ~hasWallet(w, userId, request.asset)
                \/ w[<<userId, request.asset>>] < request.amount
            THEN "Insufficient balance for investment"
            ELSE ""
      [] OTHER -> ""

\* processDeposit that refuses an amount above the balance.
processDepositNeedsBalance(w, userId, asset, amount, f) ==
    IF ~hasWallet(w, userId, asset) THEN [wallets |-> w, ok |-> FALSE]
    ELSE IF w[<<userId, asset>>] < amount THEN [wallets |-> w, ok |-> FALSE]
    ELSE IF Fails(f, "creditWallet", 0) THEN [wallets |-> w, ok |-> FALSE]
    ELSE [wallets |-> updateWalletBalance(w, <<userId, asset>>,
                        w[<<userId, asset>>] + amount, FALSE),
          ok |-> TRUE]

\* processDeposit without the test of what updateWalletBalance returned.
processDepositIgnoresNull(w, userId, asset, amount, f) ==
    IF ~hasWallet(w, userId, asset) THEN [wallets |-> w, ok |-> FALSE]
    ELSE [wallets |-> updateWalletBalance(w, <<userId, asset>>,
                        w[<<userId, asset>>] + amount,
                        Fails(f, "creditWallet", 0)),
          ok |-> TRUE]

\* processDeposit: the wallets afterwards and the boolean returned.
processDeposit(w, userId, asset, amount, f) ==
    IF ~hasWallet(w, userId, asset) THEN [wallets |-> w, ok |-> FALSE]
    ELSE IF Fails(f, "creditWallet", 0) THEN [wallets |-> w, ok |-> FALSE]
    ELSE [wallets |-> updateWalletBalance(w, <<userId, asset>>,
                        w[<<userId, asset>>] + amount, FALSE),
          ok |-> TRUE]

\* processWithdrawal without its two balance tests.
processWithdrawalUnchecked(w, userId, asset, amount, f) ==
    IF ~hasWallet(w, userId, asset) THEN [wallets |-> w, ok |-> FALSE]
    ELSE IF Fails(f, "debitWallet", 0) THEN [wallets |-> w, ok |-> FALSE]
    ELSE [wallets |-> updateWalletBalance(w, <<userId, asset>>,
                        w[<<userId, asset>>] - (amount + getNetworkFee(asset)), FALSE),
          ok |-> TRUE]

\* processWithdrawal: the wallets afterwards and the boolean returned.
processWithdrawal(w, userId, asset, amount, f) ==
    LET totalDeduction == amount + getNetworkFee(asset) IN
    IF ~hasWallet(w, userId, asset) THEN [wallets |-> w, ok |-> FALSE]
    ELSE IF w[<<userId, asset>>] < amount THEN [wallets |-> w, ok |-> FALSE]
    ELSE IF w[<<userId, asset>>] < totalDeduction THEN [wallets |-> w, ok |-> FALSE]
    ELSE IF Fails(f, "debitWallet", 0) THEN [wallets |-> w, ok |-> FALSE]
    ELSE [wallets |-> updateWalletBalance(w, <<userId, asset>>,
                        w[<<userId, asset>>] - totalDeduction, FALSE),
          ok |-> TRUE]

\* receivedAmount = (amount * exchangeRate) * (1 - exchangeFee)
receivedAmount(amount, exchangeRate) ==
    (amount * exchangeRate * (1000 - ExchangeFeePerMille)) \div 1000

\* processExchange: both balances are computed from the wallets read at the
\* start; neither result of updateWalletBalance is looked at.
processExchange(w, userId, fromAsset, toAsset, amount, exchangeRate, f) ==
    IF ~hasWallet(w, userId, fromAsset) \/ ~hasWallet(w, userId, toAsset)
    THEN [wallets |-> w, ok |-> FALSE]
    ELSE IF w[<<userId, fromAsset>>] < amount THEN [wallets |-> w, ok |-> FALSE]
    ELSE LET w1 == updateWalletBalance(w, <<userId, fromAsset>>,
                       w[<<userId, fromAsset>>] - amount,
                       Fails(f, "debitWallet", 0))
             w2 == updateWalletBalance(w1, <<userId, toAsset>>,
                       w[<<userId, toAsset>>] + receivedAmount(amount, exchangeRate),
                       Fails(f, "creditWallet", 0))
         IN [wallets |-> w2, ok |-> TRUE]

\* processTransaction whose WITHDRAW case executes the withdrawal at once.
processTransactionDebitsWithdraw(w, t, id, exchangeRate, f) ==
    LET transaction == t[id]
        done(r) ==
            [wallets |-> r.wallets,
             txs |-> updateTransactionStatus(t, id,
                        IF r.ok THEN "COMPLETED" ELSE "REJECTED",
                        Fails(f, "setStatus", 0))]
    IN CASE transaction.type = "DEPOSIT" ->
              done(processDeposit(w, transaction.user_id, transaction.asset,
                                  transaction.amount, f))
         [] transaction.type = "WITHDRAW" ->
              done(processWithdrawal(w, transaction.user_id, transaction.asset,
                                     transaction.amount, f))
         [] transaction.type = "EXCHANGE" ->
              IF transaction.from_asset # "" /\ transaction.to_asset # ""
              THEN done(processExchange(w, transaction.user_id,
                            transaction.from_asset, transaction.to_asset,
                            transaction.amount, exchangeRate, f))
              ELSE done([wallets |-> w, ok |-> FALSE])
         [] transaction.type = "INVEST" ->
              done([wallets |-> w, ok |-> TRUE])

\* processTransaction of the row just inserted with id `id`.
processTransaction(w, t, id, exchangeRate, f) ==
    LET transaction == t[id]
        caught(t1) ==     \* the catch block when a notification throws
            IF notificationThrows(f, 0)
            THEN updateTransactionStatus(t1, id, "REJECTED", FALSE)
            ELSE t1
        done(r) ==
            [wallets |-> r.wallets,
             txs |-> caught(updateTransactionStatus(t, id,
                        IF r.ok THEN "COMPLETED" ELSE "REJECTED",
                        Fails(f, "setStatus", 0)))]
    IN CASE transaction.type = "DEPOSIT" ->
              done(processDeposit(w, transaction.user_id, transaction.asset,
                                  transaction.amount, f))
         [] transaction.type = "WITHDRAW" ->
              [wallets |-> w, txs |-> caught(t)]  \* kept PENDING
         [] transaction.type = "EXCHANGE" ->
              IF transaction.from_asset # "" /\ transaction.to_asset # ""
              THEN done(processExchange(w, transaction.user_id,
                            transaction.from_asset, transaction.to_asset,
                            transaction.amount, exchangeRate, f))
              ELSE done([wallets |-> w, ok |-> FALSE])
         [] transaction.type = "INVEST" ->
              done([wallets |-> w, ok |-> TRUE])

\* WalletService.createTransaction: the store afterwards and "ok" when the
\* call returns, the error when it throws.
submit(w, t, userId, request, exchangeRate, f) ==
    LET error == validateTransaction(w, userId, request)
        row == Tx(userId, request.type, request.asset, request.amount,
                  "PENDING", request.fromAsset, request.toAsset,
                  request.planId, "")
        t1 == createTransaction(t, row, Fails(f, "insertTx", 0))
    IN IF error # "" THEN [wallets |-> w, txs |-> t, ret |-> error]
       ELSE IF Fails(f, "insertTx", 0) THEN [wallets |-> w, txs |-> t, ret |-> "ok"]
       ELSE LET r == processTransaction(w, t1, Len(t1), exchangeRate, f)
            IN [wallets |-> r.wallets, txs |-> r.txs,
                ret |-> IF auditThrows(f) THEN "error" ELSE "ok"]

\* approveWithdrawal: the store afterwards and the boolean returned.
approveWithdrawal(w, t, transactionId, f) ==
    LET transaction == t[transactionId] IN
    IF transaction.type # "WITHDRAW" \/ transaction.status # "PENDING"
    THEN [wallets |-> w, txs |-> t, ret |-> FALSE]
    ELSE LET r == processWithdrawal(w, transaction.user_id, transaction.asset,
                                    transaction.amount, f)
         IN IF r.ok
            THEN [wallets |-> r.wallets,
                  txs |-> updateTransactionStatus(t, transactionId, "COMPLETED",
                              Fails(f, "setStatus", 0)),
                  ret |-> ~(auditThrows(f) \/ notificationThrows(f, 0))]
            ELSE [wallets |-> w, txs |-> t, ret |-> FALSE]

\* rejectWithdrawal that credits the amount back, as if it had been held.
rejectWithdrawalRefunds(w, t, transactionId, f) ==
    LET transaction == t[transactionId] IN
    IF transaction.type # "WITHDRAW" \/ transaction.status # "PENDING"
    THEN [wallets |-> w, txs |-> t, ret |-> FALSE]
    ELSE [wallets |-> processDeposit(w, transaction.user_id, transaction.asset,
                                     transaction.amount, f).wallets,
          txs |-> updateTransactionStatus(t, transactionId, "REJECTED",
                      Fails(f, "setStatus", 0)),
          ret |-> TRUE]

\* rejectWithdrawal: the store afterwards and the boolean returned.
rejectWithdrawal(w, t, transactionId, f) ==
    LET transaction == t[transactionId] IN
    IF transaction.type # "WITHDRAW" \/ transaction.status # "PENDING"
    THEN [wallets |-> w, txs |-> t, ret |-> FALSE]
    ELSE [wallets |-> w,
          txs |-> updateTransactionStatus(t, transactionId, "REJECTED",
                      Fails(f, "setStatus", 0)),
          ret |-> ~(auditThrows(f) \/ notificationThrows(f, 0))]

----------------------------------------------------------------------------
(* AdminService                                                            *)

approveTransaction(w, t, transactionId, f) ==
    IF t[transactionId].type = "WITHDRAW"
    THEN LET r == approveWithdrawal(w, t, transactionId, f)
         IN [r EXCEPT !.ret = @ /\ ~auditThrows(f)]
    ELSE [wallets |-> w,
          txs |-> updateTransactionStatus(t, transactionId, "COMPLETED",
                      Fails(f, "setStatus", 0)),
          ret |-> ~auditThrows(f)]

rejectTransaction(w, t, transactionId, f) ==
    IF t[transactionId].type = "WITHDRAW"
    THEN LET r == rejectWithdrawal(w, t, transactionId, f)
         IN [r EXCEPT !.ret = @ /\ ~auditThrows(f)]
    ELSE [wallets |-> w,
          txs |-> updateTransactionStatus(t, transactionId, "REJECTED",
                      Fails(f, "setStatus", 0)),
          ret |-> ~(auditThrows(f) \/ notificationThrows(f, 0))]

\* adjustUserWallet whose SUBTRACT is not clamped at 0.
adjustUserWalletUnclamped(w, t, userId, asset, amount, type, f) ==
    IF ~hasWallet(w, userId, asset) THEN [wallets |-> w, txs |-> t, ret |-> FALSE]
    ELSE [wallets |-> updateWalletBalance(w, <<userId, asset>>,
                          IF type = "ADD" THEN w[<<userId, asset>>] + amount
                          ELSE w[<<userId, asset>>] - amount,
                          Fails(f, "adjustWallet", 0)),
          txs |-> createTransaction(t,
                      Tx(userId, IF type = "ADD" THEN "DEPOSIT" ELSE "WITHDRAW",
                         asset, amount, "COMPLETED", "", "", "", "adjustment"),
                      Fails(f, "insertTx", 0)),
          ret |-> ~(auditThrows(f) \/ notificationThrows(f, 0))]

\* AdminService.adjustUserWallet: the store afterwards and the boolean
\* returned.
adjustUserWallet(w, t, userId, asset, amount, type, f) ==
    IF ~hasWallet(w, userId, asset) THEN [wallets |-> w, txs |-> t, ret |-> FALSE]
    ELSE LET balance == w[<<userId, asset>>]
             newBalance == IF type = "ADD" THEN balance + amount
                           ELSE IF balance - amount > 0 THEN balance - amount ELSE 0
         IN [wallets |-> updateWalletBalance(w, <<userId, asset>>, newBalance,
                             Fails(f, "adjustWallet", 0)),
             txs |-> createTransaction(t,
                         Tx(userId, IF type = "ADD" THEN "DEPOSIT" ELSE "WITHDRAW",
                            asset, amount, "COMPLETED", "", "", "", "adjustment"),
                         Fails(f, "insertTx", 0)),
             ret |-> ~(auditThrows(f) \/ notificationThrows(f, 0))]

----------------------------------------------------------------------------
(* InvestmentService                                                       *)

\* validateInvestment without the test of the plan's minimum.
validateInvestmentNoMinimum(p, request) ==
    IF request.planId \notin DOMAIN p \/ ~p[request.planId].is_active
    THEN "Plan not found or inactive"
    ELSE IF p[request.planId].max_amount # 0
            /\ request.amount > p[request.planId].max_amount
    THEN "Maximum investment amount"
    ELSE ""

\* validateInvestment: "" when the request is valid, else the error.
validateInvestment(p, request) ==
    IF request.planId \notin DOMAIN p \/ ~p[request.planId].is_active
    THEN "Plan not found or inactive"
    ELSE IF request.amount < p[request.planId].min_amount
    THEN "Minimum investment amount"
    ELSE IF p[request.planId].max_amount # 0
            /\ request.amount > p[request.planId].max_amount
    THEN "Maximum investment amount"
    ELSE ""

\* createInvestment.  walletService.createTransaction is declared
\* Promise<void>: the value awaited at line 103 is undefined, so the test at
\* line 111 always returns the failure and lines 115-155 (createSubscription,
\* the debit) are not reached.  When createTransaction throws, the catch at
\* line 156 returns the failure.
createInvestment(w, t, p, userId, request, f) ==
    LET error == validateInvestment(p, request) IN
    IF error # "" THEN [wallets |-> w, txs |-> t, ret |-> error]
    ELSE IF ~hasWallet(w, userId, request.asset)
            \/ w[<<userId, request.asset>>] < request.amount
    THEN [wallets |-> w, txs |-> t, ret |-> "Insufficient balance"]
    ELSE LET r == submit(w, t, userId,
                      Request("INVEST", request.asset, request.amount, "", "",
                              request.planId), 1, f)
         IN IF r.ret # "ok"
            THEN [wallets |-> r.wallets, txs |-> r.txs,
                  ret |-> "Failed to create investment"]
            ELSE [wallets |-> r.wallets, txs |-> r.txs,
                  ret |-> "Failed to create investment transaction"]

\* cancelTerms whose refund also takes back the earnings already paid.
cancelTermsNetOfEarnings(subscription, t) ==
    LET daysSinceStart == t - subscription.start_date
        penalty == IF daysSinceStart < GraceDays
                   THEN (subscription.amount * PenaltyPercent) \div 100
                   ELSE 0
    IN [refundAmount |-> subscription.amount - penalty - subscription.total_earned,
        penalty |-> penalty, daysSinceStart |-> daysSinceStart]

\* cancelTerms with the grace period's last day included in the penalty.
cancelTermsInclusive(subscription, t) ==
    LET daysSinceStart == t - subscription.start_date
        penalty == IF daysSinceStart <= GraceDays
                   THEN (subscription.amount * PenaltyPercent) \div 100
                   ELSE 0
    IN [refundAmount |-> subscription.amount - penalty, penalty |-> penalty,
        daysSinceStart |-> daysSinceStart]

\* daysSinceStart, penalty and refundAmount of cancelInvestment.
cancelTerms(subscription, t) ==
    LET daysSinceStart == t - subscription.start_date
        penalty == IF daysSinceStart < GraceDays
                   THEN (subscription.amount * PenaltyPercent) \div 100
                   ELSE 0
    IN [refundAmount |-> subscription.amount - penalty, penalty |-> penalty,
        daysSinceStart |-> daysSinceStart]

\* db.updatePlan: the fields named in `updates` are overwritten.
updatePlan(p, id, updates, failed) ==
    IF failed \/ id \notin DOMAIN p THEN p
    ELSE [p EXCEPT ![id] = updates @@ p[id]]

\* updateSubscription without its filter on the id: every row is written.
updateSubscriptionEveryRow(s, id, field, value, failed) ==
    IF failed THEN s
    ELSE IF field = "status" THEN [i \in DOMAIN s |-> [s[i] EXCEPT !.status = value]]
    ELSE [i \in DOMAIN s |-> [s[i] EXCEPT !.total_earned = value]]

updateSubscription(s, id, field, value, failed) ==
    IF failed THEN s
    ELSE IF field = "status" THEN [s EXCEPT ![id].status = value]
    ELSE [s EXCEPT ![id].total_earned = value]

\* cancelInvestment without the test of the subscription's status.
cancelInvestmentAnyStatus(w, t, s, userId, subscriptionId, today, f) ==
    IF subscriptionId \notin DOMAIN s \/ s[subscriptionId].user_id # userId
    THEN [wallets |-> w, txs |-> t, subs |-> s, ret |-> "Investment not found",
          info |-> NoTerms]
    ELSE LET terms == cancelTerms(s[subscriptionId], today)
             s1 == updateSubscription(s, subscriptionId, "status", "CANCELLED",
                       Fails(f, "setSubStatus", 0))
             w1 == IF hasWallet(w, userId, "USDT")
                   THEN updateWalletBalance(w, <<userId, "USDT">>,
                            w[<<userId, "USDT">>] + terms.refundAmount,
                            Fails(f, "creditWallet", 0))
                   ELSE w
             t1 == createTransaction(t,
                       Tx(userId, "DEPOSIT", "USDT", terms.refundAmount,
                          "COMPLETED", "", "", "", "refund"),
                       Fails(f, "insertTx", 0))
         IN [wallets |-> w1, txs |-> t1, subs |-> s1, ret |-> "ok", info |-> terms]

\* cancelInvestment: the store afterwards and the success flag returned.
cancelInvestment(w, t, s, userId, subscriptionId, today, f) ==
    IF subscriptionId \notin DOMAIN s \/ s[subscriptionId].user_id # userId
    THEN [wallets |-> w, txs |-> t, subs |-> s, ret |-> "Investment not found",
          info |-> NoTerms]
    ELSE IF s[subscriptionId].status # "ACTIVE"
    THEN [wallets |-> w, txs |-> t, subs |-> s, ret |-> "Investment is not active",
          info |-> NoTerms]
    ELSE LET terms == cancelTerms(s[subscriptionId], today)
             s1 == updateSubscription(s, subscriptionId, "status", "CANCELLED",
                       Fails(f, "setSubStatus", 0))
             w1 == IF hasWallet(w, userId, "USDT")
                   THEN updateWalletBalance(w, <<userId, "USDT">>,
                            w[<<userId, "USDT">>] + terms.refundAmount,
                            Fails(f, "creditWallet", 0))
                   ELSE w
             t1 == createTransaction(t,
                       Tx(userId, "DEPOSIT", "USDT", terms.refundAmount,
                          "COMPLETED", "", "", "", "refund"),
                       Fails(f, "insertTx", 0))
         IN [wallets |-> w1, txs |-> t1, subs |-> s1,
             ret |-> IF auditThrows(f) \/ notificationThrows(f, 0)
                     THEN "Failed to cancel investment" ELSE "ok",
             info |-> terms]

\* The select without its status filter.
allSubscriptions(s) == DOMAIN s

\* The rows of `select ... eq('status', 'ACTIVE')`, by id.
activeSubscriptions(s) == {i \in DOMAIN s : s[i].status = "ACTIVE"}

dailyEarnings(amount, apy) == (amount * apy) \div (DaysPerYear * 1000)

\* One iteration of the loop of processEarnings, for the row `subscription`
\* (as selected at the start of the sweep) with id `id`.
processSubscription(st, p, subscription, id, today, f) ==
    IF subscription.plan_id \notin DOMAIN p THEN st
    ELSE
    LET earnings == dailyEarnings(subscription.amount, p[subscription.plan_id].apy)
        newTotalEarned == subscription.total_earned + earnings
        user == subscription.user_id
        s1 == updateSubscription(st.subs, id, "total_earned", newTotalEarned,
                  Fails(f, "setTotalEarned", id))
        usdtWallet == hasWallet(st.wallets, user, "USDT")
        balance == IF usdtWallet THEN st.wallets[<<user, "USDT">>] ELSE 0
        w1 == IF usdtWallet
              THEN updateWalletBalance(st.wallets, <<user, "USDT">>,
                       balance + earnings, Fails(f, "creditEarnings", id))
              ELSE st.wallets
        t1 == createTransaction(st.txs,
                  Tx(user, "DEPOSIT", "USDT", earnings, "COMPLETED", "", "", "",
                     "earnings"),
                  Fails(f, "insertEarningsTx", id))
    IN IF today >= subscription.end_date
       THEN [subs |-> updateSubscription(s1, id, "status", "COMPLETED",
                          Fails(f, "setSubStatus", id)),
             wallets |-> IF usdtWallet
                         THEN updateWalletBalance(w1, <<user, "USDT">>,
                                  balance + subscription.amount,
                                  Fails(f, "creditPrincipal", id))
                         ELSE w1,
             txs |-> createTransaction(t1,
                         Tx(user, "DEPOSIT", "USDT", subscription.amount,
                            "COMPLETED", "", "", "", "principal"),
                         Fails(f, "insertPrincipalTx", id)),
             aborted |-> notificationThrows(f, id)]
       ELSE [subs |-> s1, wallets |-> w1, txs |-> t1, aborted |-> FALSE]

\* The loop of processEarnings over the selected rows with id >= i.
RECURSIVE sweepFrom(_, _, _, _, _, _, _)
sweepFrom(st, p, selected, rows, i, today, f) ==
    IF i > Len(rows) \/ st.aborted THEN st
    ELSE sweepFrom(IF i \in selected
                   THEN processSubscription(st, p, rows[i], i, today, f)
                   ELSE st,
                   p, selected, rows, i + 1, today, f)

\* processEarnings: the store afterwards.
processEarnings(w, t, s, p, today, f) ==
    sweepFrom([wallets |-> w, txs |-> t, subs |-> s, aborted |-> FALSE], p,
              activeSubscriptions(s), s, 1, today, f)

----------------------------------------------------------------------------
(* The state machine                                                       *)

\* The subscriptions the store holds at the start: createInvestment never
\* reaches createSubscription, so the rows the sweep and cancelInvestment
\* work on are rows the table already holds.
InitSubscriptions ==
    LET Rows == {[user_id |-> u, plan_id |-> p, amount |-> a, start_date |-> 0,
                  end_date |-> InitPlans[p].duration_days, status |-> "ACTIVE",
                  total_earned |-> 0] : u \in Owners, p \in PlanIds, a \in Principals}
    IN UNION {[1..n -> Rows] : n \in 0..MaxSubs}

\* The store of the ledger: the wallets as created, no subscription.
Init ==
    /\ wallets = [id \in WalletIds |-> 0]
    /\ txs = <<>>
    /\ subs = <<>>
    /\ plans = InitPlans
    /\ now = 0
    /\ budget = 0
    /\ last = Call("init", 0, "", NoFault)
    /\ calls = [c \in CallIds |-> Idle]

\* The same store, behind which store calls may fail.
FaultInit ==
    /\ wallets = [id \in WalletIds |-> 0]
    /\ txs = <<>>
    /\ subs = <<>>
    /\ plans = InitPlans
    /\ now = 0
    /\ budget = MaxFaults
    /\ last = Call("init", 0, "", NoFault)
    /\ calls = [c \in CallIds |-> Idle]

\* The store of the accrual engine: the wallets as created, subscriptions.
AccrualInit ==
    /\ wallets = [id \in WalletIds |-> 0]
    /\ txs = <<>>
    /\ subs \in InitSubscriptions
    /\ plans = InitPlans
    /\ now = 0
    /\ budget = 0
    /\ last = Call("init", 0, "", NoFault)
    /\ calls = [c \in CallIds |-> Idle]

\* The same store, behind which store calls may fail.
AccrualFaultInit ==
    /\ wallets = [id \in WalletIds |-> 0]
    /\ txs = <<>>
    /\ subs \in InitSubscriptions
    /\ plans = InitPlans
    /\ now = 0
    /\ budget = MaxFaults
    /\ last = Call("init", 0, "", NoFault)
    /\ calls = [c \in CallIds |-> Idle]

\* The store calls whose result no caller reads.
SilentPoints == {"notification", "audit"}

\* A failure the caller can tell from success is taken only where it shows.
shows(f) == f # NoFault /\ f.at \notin SilentPoints

\* The inputs f of a call: no store call fails, or the one named fails.
FaultChoices(points, ids) ==
    {NoFault} \cup
        (IF budget > 0
         THEN {Fault(pt, i) : pt \in points, i \in ids}
         ELSE {})

countFault(f) == IF f = NoFault THEN budget ELSE budget - 1

Requests ==
    {Request("DEPOSIT", a, m, "", "", "") : a \in Assets, m \in DepositAmounts}
    \cup {Request("WITHDRAW", a, m, "", "", "") : a \in Assets, m \in WithdrawAmounts}
    \cup {Request("EXCHANGE", a, m, x[1], x[2], "") :
             a \in Assets, m \in ExchangeAmounts, x \in ExchangeAssets \X ExchangeAssets}
    \cup {Request("INVEST", a, m, "", "", p) :
             a \in Assets, m \in InvestAmounts, p \in PlanIds}

InvestmentRequests ==
    {Request("INVEST", a, m, "", "", p) :
        a \in Assets, m \in InvestAmounts, p \in PlanIds}

CreateTransaction(userId, request, exchangeRate, f) ==
    LET r == submit(wallets, txs, userId, request, exchangeRate, f) IN
    /\ shows(f) => r # submit(wallets, txs, userId, request, exchangeRate, NoFault)
    /\ Len(r.txs) <= MaxTx
    /\ wallets' = r.wallets
    /\ txs' = r.txs
    /\ budget' = countFault(f)
    /\ last' = Call("createTransaction", Len(r.txs), r.ret, f)
    /\ UNCHANGED <<subs, plans, now, calls>>

CreateInvestment(userId, request, f) ==
    LET r == createInvestment(wallets, txs, plans, userId, request, f) IN
    /\ shows(f) => r # createInvestment(wallets, txs, plans, userId, request, NoFault)
    /\ Len(r.txs) <= MaxTx
    /\ wallets' = r.wallets
    /\ txs' = r.txs
    /\ budget' = countFault(f)
    /\ last' = Call("createInvestment", Len(r.txs), r.ret, f)
    /\ UNCHANGED <<subs, plans, now, calls>>

ApproveTransaction(transactionId, f) ==
    LET r == approveTransaction(wallets, txs, transactionId, f) IN
    /\ shows(f) => r # approveTransaction(wallets, txs, transactionId, NoFault)
    /\ wallets' = r.wallets
    /\ txs' = r.txs
    /\ budget' = countFault(f)
    /\ last' = Call("approveTransaction", transactionId, r.ret, f)
    /\ UNCHANGED <<subs, plans, now, calls>>

RejectTransaction(transactionId, f) ==
    LET r == rejectTransaction(wallets, txs, transactionId, f) IN
    /\ shows(f) => r # rejectTransaction(wallets, txs, transactionId, NoFault)
    /\ wallets' = r.wallets
    /\ txs' = r.txs
    /\ budget' = countFault(f)
    /\ last' = Call("rejectTransaction", transactionId, r.ret, f)
    /\ UNCHANGED <<subs, plans, now, calls>>

CancelInvestment(userId, subscriptionId, f) ==
    LET r == cancelInvestment(wallets, txs, subs, userId, subscriptionId, now, f) IN
    /\ shows(f) =>
          r # cancelInvestment(wallets, txs, subs, userId, subscriptionId, now, NoFault)
    /\ Len(r.txs) <= MaxLog
    /\ wallets' = r.wallets
    /\ txs' = r.txs
    /\ subs' = r.subs
    /\ budget' = countFault(f)
    /\ last' = Call("cancelInvestment", subscriptionId, r.ret, f)
    /\ UNCHANGED <<plans, now, calls>>

ProcessEarnings(f) ==
    LET r == processEarnings(wallets, txs, subs, plans, now, f) IN
    /\ shows(f) => r # processEarnings(wallets, txs, subs, plans, now, NoFault)
    /\ Len(r.txs) <= MaxLog
    /\ wallets' = r.wallets
    /\ txs' = r.txs
    /\ subs' = r.subs
    /\ budget' = countFault(f)
    /\ last' = Call("processEarnings", Cardinality(activeSubscriptions(subs)), "ok", f)
    /\ UNCHANGED <<plans, now, calls>>

\* The clock advances to day d.
Tick(d) ==
    /\ d > now
    /\ now' = d
    /\ last' = Call("tick", 0, "", NoFault)
    /\ UNCHANGED <<wallets, txs, subs, plans, budget, calls>>

\* The transaction processor and the admin approval surface.
Next ==
    \/ \E u \in Clients, q \in Requests :
          \E x \in (IF q.type = "EXCHANGE" THEN Rates ELSE {0}) :
          \E f \in FaultChoices({"insertTx", "creditWallet", "debitWallet", "setStatus"}, {0}) :
             CreateTransaction(u, q, x, f)
    \/ \E u \in Clients, q \in InvestmentRequests :
          \E f \in FaultChoices({"insertTx", "setStatus"}, {0}) :
             CreateInvestment(u, q, f)
    \/ \E id \in DOMAIN txs :
          \E f \in FaultChoices({"debitWallet", "setStatus"}, {0}) :
             ApproveTransaction(id, f)
    \/ \E id \in DOMAIN txs :
          \E f \in FaultChoices({"setStatus"}, {0}) :
             RejectTransaction(id, f)

Spec == Init /\ [][Next]_vars

FaultSpec == FaultInit /\ [][Next]_vars

\* The accrual engine and the cancellation handler, with the clock.
AccrualNext ==
    \/ \E u \in Owners, id \in DOMAIN subs :
          \E f \in FaultChoices({"setSubStatus", "creditWallet", "insertTx"}, {0}) :
             CancelInvestment(u, id, f)
    \/ \E f \in FaultChoices({"setTotalEarned", "creditEarnings", "insertEarningsTx",
                               "setSubStatus", "creditPrincipal", "insertPrincipalTx"},
                              DOMAIN subs) :
          ProcessEarnings(f)
    \/ \E d \in Instants : Tick(d)

AccrualSpec == AccrualInit /\ [][AccrualNext]_vars

AccrualFaultSpec == AccrualFaultInit /\ [][AccrualNext]_vars

\* The store in which only notifications and audit entries may fail.
NotifyInit ==
    /\ wallets = [id \in WalletIds |-> 0]
    /\ txs = <<>>
    /\ subs \in {s \in InitSubscriptions : Len(s) <= 1}
    /\ plans = InitPlans
    /\ now = 0
    /\ budget = MaxFaults
    /\ last = Call("init", 0, "", NoFault)
    /\ calls = [c \in CallIds |-> Idle]

\* A request settled at once and one kept for approval.
NotifyRequests ==
    {Request("DEPOSIT", "USDT", 100000, "", "", ""),
     Request("WITHDRAW", "USDT", 100000, "", "", "")}

\* Every handler that notifies or audits after changing the ledger.
NotifyNext ==
    \/ \E u \in Clients, q \in NotifyRequests :
          \E x \in (IF q.type = "EXCHANGE" THEN Rates ELSE {0}) :
          \E f \in FaultChoices(SilentPoints, {0}) :
             CreateTransaction(u, q, x, f)
    \/ \E id \in DOMAIN txs :
          \E f \in FaultChoices(SilentPoints, {0}) :
             ApproveTransaction(id, f)
    \/ \E id \in DOMAIN txs :
          \E f \in FaultChoices(SilentPoints, {0}) :
             RejectTransaction(id, f)
    \/ \E u \in Owners, id \in DOMAIN subs :
          \E f \in FaultChoices(SilentPoints, {0}) :
             CancelInvestment(u, id, f)
    \/ \E f \in FaultChoices({"notification"}, DOMAIN subs) :
          ProcessEarnings(f)
    \/ \E d \in Instants : Tick(d)

NotifySpec == NotifyInit /\ [][NotifyNext]_vars

\* Requests of both owners: alice funds her USDT wallet and withdraws, bob
\* funds his BTC wallet.
OwnerRequests ==
    [alice |-> {Request("DEPOSIT", "USDT", 1000000, "", "", ""),
                Request("WITHDRAW", "USDT", 100000, "", "", "")},
     bob |-> {Request("DEPOSIT", "BTC", 10, "", "", "")}]

\* The store in which each owner holds a subscription.
OwnersInit ==
    /\ wallets = [id \in WalletIds |-> 0]
    /\ txs = <<>>
    /\ subs \in {s \in InitSubscriptions : {s[i].user_id : i \in DOMAIN s} = Owners}
    /\ plans = InitPlans
    /\ now = 0
    /\ budget = 0
    /\ last = Call("init", 0, "", NoFault)
    /\ calls = [c \in CallIds |-> Idle]

\* The ledger and the accrual engine serving both owners.
OwnersNext ==
    \/ \E u \in Owners : \E q \in OwnerRequests[u] : CreateTransaction(u, q, 0, NoFault)
    \/ \E id \in DOMAIN txs : ApproveTransaction(id, NoFault)
    \/ \E id \in DOMAIN txs : RejectTransaction(id, NoFault)
    \/ \E u \in Owners, id \in DOMAIN subs : CancelInvestment(u, id, NoFault)
    \/ ProcessEarnings(NoFault)
    \/ \E d \in Instants : Tick(d)

OwnersSpec == OwnersInit /\ [][OwnersNext]_vars

\* The amounts an admin adjusts a wallet by.
AdjustAmounts == {-150000, 60000, 150000}

AdjustUserWallet(userId, asset, amount, type) ==
    LET r == adjustUserWallet(wallets, txs, userId, asset, amount, type, NoFault) IN
    /\ Len(r.txs) <= MaxLog
    /\ wallets' = r.wallets
    /\ txs' = r.txs
    /\ last' = Call("adjustUserWallet", Len(r.txs), r.ret, NoFault)
    /\ UNCHANGED <<subs, plans, now, budget, calls>>

\* Submissions and the admin's wallet adjustment.
AdjustNext ==
    \/ \E u \in Clients, q \in NotifyRequests : CreateTransaction(u, q, 0, NoFault)
    \/ \E u \in Owners, a \in Assets, m \in AdjustAmounts, k \in {"ADD", "SUBTRACT"} :
          AdjustUserWallet(u, a, m, k)

AdjustSpec == Init /\ [][AdjustNext]_vars

\* InvestmentService.updatePlan.
UpdatePlan(planId, updates) ==
    /\ updatePlan(plans, planId, updates, FALSE) # plans
    /\ plans' = updatePlan(plans, planId, updates, FALSE)
    /\ last' = Call("updatePlan", 0, "ok", NoFault)
    /\ UNCHANGED <<wallets, txs, subs, now, budget, calls>>

\* The accrual engine and the cancellation handler while the catalogue of
\* plans is edited.
CatalogueNext ==
    \/ AccrualNext
    \/ \E id \in PlanIds, apy \in PlanRates : UpdatePlan(id, [apy |-> apy])

CatalogueSpec == AccrualInit /\ [][CatalogueNext]_vars

----------------------------------------------------------------------------
(* Calls in progress together.  A service call runs up to its next await,  *)
(* where another call may run; each action below is the part of a call     *)
(* from one await to the next.                                             *)

RaceInit ==
    /\ wallets = [id \in WalletIds |-> 0]
    /\ txs = <<>>
    /\ subs \in {s \in InitSubscriptions : Len(s) <= 1}
    /\ plans = InitPlans
    /\ now = 0
    /\ budget = 0
    /\ last = Call("init", 0, "", NoFault)
    /\ calls = [c \in CallIds |-> Idle]

\* The smallest id of a non-empty set of row ids.
firstOf(ids) == CHOOSE i \in ids : \A j \in ids : i <= j

\* The call at the head of the next iteration of the loop of processEarnings,
\* or returned when no selected row is left.
nextIteration(call, remaining) ==
    IF remaining = {} THEN Idle
    ELSE [call EXCEPT !.selected = remaining, !.sub = firstOf(remaining),
                      !.pc = "updateSubscription", !.found = FALSE, !.balance = 0]

\* createTransaction of a DEPOSIT up to the await of db.createTransaction:
\* the request is validated and the PENDING row is inserted.
BeginDeposit(c, userId, request) ==
    /\ calls[c] = Idle
    /\ request.type = "DEPOSIT"
    /\ validateTransaction(wallets, userId, request) = ""
    /\ Len(txs) < MaxLog
    /\ txs' = createTransaction(txs,
                  Tx(userId, request.type, request.asset, request.amount, "PENDING",
                     request.fromAsset, request.toAsset, request.planId, ""), FALSE)
    /\ calls' = [calls EXCEPT ![c] =
                    [Idle EXCEPT !.op = "createTransaction", !.pc = "getUserWallets",
                                 !.user = userId, !.amount = request.amount,
                                 !.tx = Len(txs) + 1]]
    /\ UNCHANGED <<wallets, subs, plans, now, budget, last>>

\* processDeposit: the wallet is read.
DepositReadWallet(c) ==
    /\ calls[c].op = "createTransaction"
    /\ calls[c].pc = "getUserWallets"
    /\ calls' = [calls EXCEPT ![c] =
          IF hasWallet(wallets, calls[c].user, txs[calls[c].tx].asset)
          THEN [calls[c] EXCEPT !.pc = "updateWalletBalance", !.found = TRUE,
                   !.balance = wallets[<<calls[c].user, txs[calls[c].tx].asset>>]]
          ELSE [calls[c] EXCEPT !.pc = "updateTransactionStatus", !.found = FALSE]]
    /\ UNCHANGED <<wallets, txs, subs, plans, now, budget, last>>

\* processDeposit: the balance read, plus the amount, is written.
DepositWriteWallet(c) ==
    /\ calls[c].op = "createTransaction"
    /\ calls[c].pc = "updateWalletBalance"
    /\ wallets' = updateWalletBalance(wallets,
                      <<calls[c].user, txs[calls[c].tx].asset>>,
                      calls[c].balance + calls[c].amount, FALSE)
    /\ calls' = [calls EXCEPT ![c].pc = "updateTransactionStatus"]
    /\ UNCHANGED <<txs, subs, plans, now, budget, last>>

\* processTransaction: the status is written and createTransaction returns.
DepositSetStatus(c) ==
    /\ calls[c].op = "createTransaction"
    /\ calls[c].pc = "updateTransactionStatus"
    /\ txs' = updateTransactionStatus(txs, calls[c].tx,
                  IF calls[c].found THEN "COMPLETED" ELSE "REJECTED", FALSE)
    /\ calls' = [calls EXCEPT ![c] = Idle]
    /\ last' = Call("createTransaction", calls[c].tx, "ok", NoFault)
    /\ UNCHANGED <<wallets, subs, plans, now, budget>>

\* processEarnings up to its first await inside the loop: the ACTIVE rows
\* are selected.
BeginSweep(c) ==
    /\ calls[c] = Idle
    /\ calls' = [calls EXCEPT ![c] =
          nextIteration([Idle EXCEPT !.op = "processEarnings", !.rows = subs,
                                     !.count = Cardinality(activeSubscriptions(subs))],
                        activeSubscriptions(subs))]
    /\ last' = IF activeSubscriptions(subs) = {}
               THEN Call("processEarnings", 0, "ok", NoFault)
               ELSE last
    /\ UNCHANGED <<wallets, txs, subs, plans, now, budget>>

\* The loop body: total_earned is written from the row as selected.
SweepSetTotalEarned(c) ==
    LET call == calls[c]
        row == call.rows[call.sub]
    IN /\ call.op = "processEarnings"
       /\ call.pc = "updateSubscription"
       /\ subs' = updateSubscription(subs, call.sub, "total_earned",
                      row.total_earned + dailyEarnings(row.amount, plans[row.plan_id].apy),
                      FALSE)
       /\ calls' = [calls EXCEPT ![c].pc = "getUserWallets"]
       /\ UNCHANGED <<wallets, txs, plans, now, budget, last>>

\* The loop body: the owner's USDT wallet is read.
SweepReadWallet(c) ==
    LET call == calls[c]
        user == call.rows[call.sub].user_id
    IN /\ call.op = "processEarnings"
       /\ call.pc = "getUserWallets"
       /\ calls' = [calls EXCEPT ![c] =
             IF hasWallet(wallets, user, "USDT")
             THEN [call EXCEPT !.pc = "updateWalletBalance", !.found = TRUE,
                               !.balance = wallets[<<user, "USDT">>]]
             ELSE [call EXCEPT !.pc = "createTransaction", !.found = FALSE]]
       /\ UNCHANGED <<wallets, txs, subs, plans, now, budget, last>>

\* The loop body: the balance read, plus the earnings, is written.
SweepCreditEarnings(c) ==
    LET call == calls[c]
        row == call.rows[call.sub]
    IN /\ call.op = "processEarnings"
       /\ call.pc = "updateWalletBalance"
       /\ wallets' = updateWalletBalance(wallets, <<row.user_id, "USDT">>,
                         call.balance + dailyEarnings(row.amount, plans[row.plan_id].apy),
                         FALSE)
       /\ calls' = [calls EXCEPT ![c].pc = "createTransaction"]
       /\ UNCHANGED <<txs, subs, plans, now, budget, last>>

\* The loop body: the earnings transaction is inserted and the end date is
\* compared with the clock.
SweepInsertEarningsTx(c) ==
    LET call == calls[c]
        row == call.rows[call.sub]
        after == nextIteration(call, call.selected \ {call.sub})
    IN /\ call.op = "processEarnings"
       /\ call.pc = "createTransaction"
       /\ Len(txs) < MaxLog
       /\ txs' = createTransaction(txs,
                     Tx(row.user_id, "DEPOSIT", "USDT",
                        dailyEarnings(row.amount, plans[row.plan_id].apy),
                        "COMPLETED", "", "", "", "earnings"), FALSE)
       /\ calls' = [calls EXCEPT ![c] =
             IF now >= row.end_date
             THEN [call EXCEPT !.pc = "completeSubscription"]
             ELSE after]
       /\ last' = IF now < row.end_date /\ after = Idle
                  THEN Call("processEarnings", call.count, "ok", NoFault)
                  ELSE last
       /\ UNCHANGED <<wallets, subs, plans, now, budget>>

\* The loop body at maturity: the status COMPLETED is written.
SweepSetCompleted(c) ==
    LET call == calls[c] IN
    /\ call.op = "processEarnings"
    /\ call.pc = "completeSubscription"
    /\ subs' = updateSubscription(subs, call.sub, "status", "COMPLETED", FALSE)
    /\ calls' = [calls EXCEPT ![c].pc =
                    IF call.found THEN "returnPrincipal" ELSE "principalTransaction"]
    /\ UNCHANGED <<wallets, txs, plans, now, budget, last>>

\* The loop body at maturity: the balance read before the earnings credit,
\* plus the principal, is written.
SweepCreditPrincipal(c) ==
    LET call == calls[c]
        row == call.rows[call.sub]
    IN /\ call.op = "processEarnings"
       /\ call.pc = "returnPrincipal"
       /\ wallets' = updateWalletBalance(wallets, <<row.user_id, "USDT">>,
                         call.balance + row.amount, FALSE)
       /\ calls' = [calls EXCEPT ![c].pc = "principalTransaction"]
       /\ UNCHANGED <<txs, subs, plans, now, budget, last>>

\* The loop body at maturity: the principal transaction is inserted.
SweepInsertPrincipalTx(c) ==
    LET call == calls[c]
        row == call.rows[call.sub]
        after == nextIteration(call, call.selected \ {call.sub})
    IN /\ call.op = "processEarnings"
       /\ call.pc = "principalTransaction"
       /\ Len(txs) < MaxLog
       /\ txs' = createTransaction(txs,
                     Tx(row.user_id, "DEPOSIT", "USDT", row.amount,
                        "COMPLETED", "", "", "", "principal"), FALSE)
       /\ calls' = [calls EXCEPT ![c] = after]
       /\ last' = IF after = Idle
                  THEN Call("processEarnings", call.count, "ok", NoFault)
                  ELSE last
       /\ UNCHANGED <<wallets, subs, plans, now, budget>>

RaceNext ==
    \/ \E c \in CallIds, u \in Clients, a \in Assets, m \in RaceAmounts :
          BeginDeposit(c, u, Request("DEPOSIT", a, m, "", "", ""))
    \/ \E c \in CallIds : DepositReadWallet(c)
    \/ \E c \in CallIds : DepositWriteWallet(c)
    \/ \E c \in CallIds : DepositSetStatus(c)
    \/ \E c \in CallIds : BeginSweep(c)
    \/ \E c \in CallIds : SweepSetTotalEarned(c)
    \/ \E c \in CallIds : SweepReadWallet(c)
    \/ \E c \in CallIds : SweepCreditEarnings(c)
    \/ \E c \in CallIds : SweepInsertEarningsTx(c)
    \/ \E c \in CallIds : SweepSetCompleted(c)
    \/ \E c \in CallIds : SweepCreditPrincipal(c)
    \/ \E c \in CallIds : SweepInsertPrincipalTx(c)
    \/ \E d \in Instants : Tick(d)

RaceSpec == RaceInit /\ [][RaceNext]_vars

\* cancelInvestment up to the await of db.updateSubscription: the row is
\* selected by id and owner, its status is tested, the refund is computed.
BeginCancel(c, userId, subscriptionId) ==
    LET refused == cancelInvestment(wallets, txs, subs, userId, subscriptionId,
                                    now, NoFault).ret
    IN /\ calls[c] = Idle
       /\ IF subscriptionId \notin DOMAIN subs
             \/ subs[subscriptionId].user_id # userId
             \/ subs[subscriptionId].status # "ACTIVE"
          THEN /\ last' = Call("cancelInvestment", subscriptionId, refused, NoFault)
               /\ UNCHANGED calls
          ELSE /\ calls' = [calls EXCEPT ![c] =
                     [Idle EXCEPT !.op = "cancelInvestment", !.pc = "updateSubscription",
                                  !.user = userId, !.sub = subscriptionId,
                                  !.amount = cancelTerms(subs[subscriptionId],
                                                         now).refundAmount]]
               /\ UNCHANGED last
       /\ UNCHANGED <<wallets, txs, subs, plans, now, budget>>

\* cancelInvestment: the status CANCELLED is written.
CancelSetStatus(c) ==
    /\ calls[c].op = "cancelInvestment"
    /\ calls[c].pc = "updateSubscription"
    /\ subs' = updateSubscription(subs, calls[c].sub, "status", "CANCELLED", FALSE)
    /\ calls' = [calls EXCEPT ![c].pc = "getUserWallets"]
    /\ UNCHANGED <<wallets, txs, plans, now, budget, last>>

\* cancelInvestment: the owner's USDT wallet is read.
CancelReadWallet(c) ==
    /\ calls[c].op = "cancelInvestment"
    /\ calls[c].pc = "getUserWallets"
    /\ calls' = [calls EXCEPT ![c] =
          IF hasWallet(wallets, calls[c].user, "USDT")
          THEN [calls[c] EXCEPT !.pc = "updateWalletBalance", !.found = TRUE,
                                !.balance = wallets[<<calls[c].user, "USDT">>]]
          ELSE [calls[c] EXCEPT !.pc = "createTransaction", !.found = FALSE]]
    /\ UNCHANGED <<wallets, txs, subs, plans, now, budget, last>>

\* cancelInvestment: the balance read, plus the refund, is written.
CancelCreditWallet(c) ==
    /\ calls[c].op = "cancelInvestment"
    /\ calls[c].pc = "updateWalletBalance"
    /\ wallets' = updateWalletBalance(wallets, <<calls[c].user, "USDT">>,
                      calls[c].balance + calls[c].amount, FALSE)
    /\ calls' = [calls EXCEPT ![c].pc = "createTransaction"]
    /\ UNCHANGED <<txs, subs, plans, now, budget, last>>

\* cancelInvestment: the refund transaction is inserted and the call returns.
CancelInsertTx(c) ==
    /\ calls[c].op = "cancelInvestment"
    /\ calls[c].pc = "createTransaction"
    /\ Len(txs) < MaxLog
    /\ txs' = createTransaction(txs,
                  Tx(calls[c].user, "DEPOSIT", "USDT", calls[c].amount, "COMPLETED",
                     "", "", "", "refund"), FALSE)
    /\ calls' = [calls EXCEPT ![c] = Idle]
    /\ last' = Call("cancelInvestment", calls[c].sub, "ok", NoFault)
    /\ UNCHANGED <<wallets, subs, plans, now, budget>>

\* cancelInvestment and processEarnings calls in progress together.
CancelRaceNext ==
    \/ \E c \in CallIds, u \in Owners, id \in DOMAIN subs : BeginCancel(c, u, id)
    \/ \E c \in CallIds : CancelSetStatus(c)
    \/ \E c \in CallIds : CancelReadWallet(c)
    \/ \E c \in CallIds : CancelCreditWallet(c)
    \/ \E c \in CallIds : CancelInsertTx(c)
    \/ \E c \in CallIds : BeginSweep(c)
    \/ \E c \in CallIds : SweepSetTotalEarned(c)
    \/ \E c \in CallIds : SweepReadWallet(c)
    \/ \E c \in CallIds : SweepCreditEarnings(c)
    \/ \E c \in CallIds : SweepInsertEarningsTx(c)
    \/ \E c \in CallIds : SweepSetCompleted(c)
    \/ \E c \in CallIds : SweepCreditPrincipal(c)
    \/ \E c \in CallIds : SweepInsertPrincipalTx(c)
    \/ \E d \in Instants : Tick(d)

CancelRaceSpec == RaceInit /\ [][CancelRaceNext]_vars

\* A funding deposit and a withdrawal that waits for approval.
ApprovalRequests ==
    {Request("DEPOSIT", "USDT", 1000000, "", "", ""),
     Request("WITHDRAW", "USDT", 100000, "", "", "")}

\* approveWithdrawal up to its second await: the row is read and tested.
BeginApprove(c, transactionId) ==
    LET transaction == txs[transactionId]
        refused == transaction.type # "WITHDRAW" \/ transaction.status # "PENDING"
    IN /\ calls[c] = Idle
       /\ calls' = [calls EXCEPT ![c] =
             IF refused THEN Idle
             ELSE [Idle EXCEPT !.op = "approveWithdrawal", !.pc = "getUserWallets",
                               !.user = transaction.user_id,
                               !.amount = transaction.amount,
                               !.tx = transactionId]]
       /\ last' = IF refused
                  THEN Call("approveWithdrawal", transactionId, FALSE, NoFault)
                  ELSE last
       /\ UNCHANGED <<wallets, txs, subs, plans, now, budget>>

\* processWithdrawal: the wallet is read and the two balance tests are made.
ApproveReadWallet(c) ==
    LET call == calls[c]
        id == <<call.user, txs[call.tx].asset>>
        enough == /\ id \in DOMAIN wallets
                  /\ wallets[id] >= call.amount + getNetworkFee(txs[call.tx].asset)
    IN /\ call.op = "approveWithdrawal"
       /\ call.pc = "getUserWallets"
       /\ calls' = [calls EXCEPT ![c] =
             IF enough
             THEN [call EXCEPT !.pc = "updateWalletBalance", !.found = TRUE,
                               !.balance = wallets[id]]
             ELSE Idle]
       /\ last' = IF enough THEN last
                  ELSE Call("approveWithdrawal", call.tx, FALSE, NoFault)
       /\ UNCHANGED <<wallets, txs, subs, plans, now, budget>>

\* processWithdrawal: the balance read, less amount and fee, is written.
ApproveDebitWallet(c) ==
    LET call == calls[c] IN
    /\ call.op = "approveWithdrawal"
    /\ call.pc = "updateWalletBalance"
    /\ wallets' = updateWalletBalance(wallets, <<call.user, txs[call.tx].asset>>,
                      call.balance
                        - (call.amount + getNetworkFee(txs[call.tx].asset)),
                      FALSE)
    /\ calls' = [calls EXCEPT ![c].pc = "updateTransactionStatus"]
    /\ UNCHANGED <<txs, subs, plans, now, budget, last>>

\* approveWithdrawal: COMPLETED is written and the call returns true.
ApproveSetStatus(c) ==
    LET call == calls[c] IN
    /\ call.op = "approveWithdrawal"
    /\ call.pc = "updateTransactionStatus"
    /\ txs' = updateTransactionStatus(txs, call.tx, "COMPLETED", FALSE)
    /\ calls' = [calls EXCEPT ![c] = Idle]
    /\ last' = Call("approveWithdrawal", call.tx, TRUE, NoFault)
    /\ UNCHANGED <<wallets, subs, plans, now, budget>>

\* rejectWithdrawal up to its second await: the row is read and tested.
BeginReject(c, transactionId) ==
    LET transaction == txs[transactionId]
        refused == transaction.type # "WITHDRAW" \/ transaction.status # "PENDING"
    IN /\ calls[c] = Idle
       /\ calls' = [calls EXCEPT ![c] =
             IF refused THEN Idle
             ELSE [Idle EXCEPT !.op = "rejectWithdrawal",
                               !.pc = "updateTransactionStatus",
                               !.user = transaction.user_id,
                               !.amount = transaction.amount,
                               !.tx = transactionId]]
       /\ last' = IF refused
                  THEN Call("rejectWithdrawal", transactionId, FALSE, NoFault)
                  ELSE last
       /\ UNCHANGED <<wallets, txs, subs, plans, now, budget>>

\* rejectWithdrawal: REJECTED is written and the call returns true.
RejectSetStatus(c) ==
    LET call == calls[c] IN
    /\ call.op = "rejectWithdrawal"
    /\ call.pc = "updateTransactionStatus"
    /\ txs' = updateTransactionStatus(txs, call.tx, "REJECTED", FALSE)
    /\ calls' = [calls EXCEPT ![c] = Idle]
    /\ last' = Call("rejectWithdrawal", call.tx, TRUE, NoFault)
    /\ UNCHANGED <<wallets, subs, plans, now, budget>>

\* approveWithdrawal and rejectWithdrawal calls in progress together, on the
\* transactions submitted while no such call was in progress.
ApprovalRaceNext ==
    \/ /\ \A c \in CallIds : calls[c] = Idle
       /\ \E u \in Clients, q \in ApprovalRequests : CreateTransaction(u, q, 0, NoFault)
    \/ \E c \in CallIds, id \in DOMAIN txs : BeginApprove(c, id)
    \/ \E c \in CallIds : ApproveReadWallet(c)
    \/ \E c \in CallIds : ApproveDebitWallet(c)
    \/ \E c \in CallIds : ApproveSetStatus(c)
    \/ \E c \in CallIds, id \in DOMAIN txs : BeginReject(c, id)
    \/ \E c \in CallIds : RejectSetStatus(c)

ApprovalRaceSpec == Init /\ [][ApprovalRaceNext]_vars

----------------------------------------------------------------------------
(* Claims                                                                  *)

balanceOf(w, user, asset) == w[<<user, asset>>]

isPendingWithdraw(row) == row.type = "WITHDRAW" /\ row.status = "PENDING"

\* C1: two sweeps in a row within the same period credit a subscription that
\* is ACTIVE throughout only once: the second sweep leaves its earned-to-date
\* and its owner's USDT wallet as the first left them.
C1_SecondSweepCreditsNothing ==
    [][(last.op = "processEarnings" /\ last'.op = "processEarnings" /\ now' = now)
        => \A i \in DOMAIN subs :
              subs[i].status = "ACTIVE" =>
                 /\ subs'[i].total_earned = subs[i].total_earned
                 /\ hasWallet(wallets, subs[i].user_id, "USDT") =>
                       balanceOf(wallets', subs[i].user_id, "USDT")
                          = balanceOf(wallets, subs[i].user_id, "USDT")]_vars

\* C2: every wallet balance in the store is >= 0.
C2_NoNegativeBalance == \A id \in DOMAIN wallets : wallets[id] >= 0

\* C3: when the write that credits the destination wallet of an EXCHANGE
\* fails, the source wallet keeps the balance it had before the exchange and
\* the transaction does not end COMPLETED.
C3_ExchangeUnwound ==
    [][(/\ last'.op = "createTransaction"
        /\ last'.fault = Fault("creditWallet", 0)
        /\ Len(txs') = Len(txs) + 1
        /\ txs'[Len(txs')].type = "EXCHANGE"
        /\ txs'[Len(txs')].from_asset # txs'[Len(txs')].to_asset)
        => LET row == txs'[Len(txs')] IN
           /\ balanceOf(wallets', row.user_id, row.from_asset)
                 = balanceOf(wallets, row.user_id, row.from_asset)
           /\ row.status # "COMPLETED"]_vars

\* C4: a WITHDRAW request of an amount <= balance and >= the asset's minimum
\* is accepted, changes no wallet and inserts exactly one row, PENDING; and a
\* PENDING WITHDRAW row stays PENDING in every step that is not an approve or
\* reject call for it.
C4_WithdrawAccepted ==
    \A u \in Clients, q \in Requests :
        (/\ q.type = "WITHDRAW"
         /\ hasWallet(wallets, u, q.asset)
         /\ q.amount <= balanceOf(wallets, u, q.asset)
         /\ q.amount >= minAmounts[q.asset])
        => submit(wallets, txs, u, q, 0, NoFault)
             = [wallets |-> wallets,
                txs |-> Append(txs, Tx(u, "WITHDRAW", q.asset, q.amount, "PENDING",
                                       "", "", "", "")),
                ret |-> "ok"]

C4_WithdrawSubmitted ==
    (/\ last'.op = "createTransaction"
     /\ Len(txs') > Len(txs)
     /\ txs'[Len(txs')].type = "WITHDRAW")
    => /\ wallets' = wallets
       /\ Len(txs') = Len(txs) + 1
       /\ txs'[Len(txs')].status = "PENDING"
       /\ \A i \in DOMAIN txs : txs'[i] = txs[i]

C4_StaysPending ==
    \A i \in DOMAIN txs :
        (/\ isPendingWithdraw(txs[i])
         /\ ~(last'.op \in {"approveTransaction", "rejectTransaction"} /\ last'.id = i))
        => txs'[i] = txs[i]

C4_WithdrawIsPending ==
    /\ []C4_WithdrawAccepted
    /\ [][C4_WithdrawSubmitted /\ C4_StaysPending]_vars

\* A WITHDRAW of the whole balance was submitted and its row is PENDING.
C4_Witness ==
    /\ last.op = "createTransaction"
    /\ last.ret = "ok"
    /\ last.id = Len(txs)
    /\ Len(txs) > 0
    /\ isPendingWithdraw(txs[Len(txs)])
    /\ txs[Len(txs)].amount = balanceOf(wallets, txs[Len(txs)].user_id, txs[Len(txs)].asset)

\* C5: approve of a PENDING WITHDRAW of amount a, with balance >= a, debits
\* the wallet by exactly a and marks the transaction COMPLETED.
C5_ApproveDebitsAmount ==
    [][(/\ last'.op = "approveTransaction"
        /\ isPendingWithdraw(txs[last'.id])
        /\ balanceOf(wallets, txs[last'.id].user_id, txs[last'.id].asset)
              >= txs[last'.id].amount)
        => LET row == txs[last'.id] IN
           /\ balanceOf(wallets', row.user_id, row.asset)
                 = balanceOf(wallets, row.user_id, row.asset) - row.amount
           /\ txs'[last'.id].status = "COMPLETED"]_vars

\* C6: approve of a PENDING WITHDRAW whose wallet balance is below the
\* withdrawal amount fails, changes no wallet and leaves the transaction as
\* it was (not COMPLETED).
C6_ApproveRevalidates ==
    [][(/\ last'.op = "approveTransaction"
        /\ isPendingWithdraw(txs[last'.id])
        /\ balanceOf(wallets, txs[last'.id].user_id, txs[last'.id].asset)
              < txs[last'.id].amount)
        => /\ last'.ret = FALSE
           /\ wallets' = wallets
           /\ txs' = txs]_vars

\* approve has just failed for a PENDING WITHDRAW whose wallet no longer
\* holds the amount (validateTransaction saw balance >= amount when the row
\* was inserted).
C6_Witness ==
    /\ last.op = "approveTransaction"
    /\ last.ret = FALSE
    /\ isPendingWithdraw(txs[last.id])
    /\ balanceOf(wallets, txs[last.id].user_id, txs[last.id].asset) < txs[last.id].amount

\* C7: reject of a PENDING WITHDRAW sets it REJECTED and changes no wallet
\* (and no other row).
C7_RejectLeavesBalance ==
    [][(last'.op = "rejectTransaction" /\ isPendingWithdraw(txs[last'.id]))
        => /\ last'.ret = TRUE
           /\ txs'[last'.id].status = "REJECTED"
           /\ wallets' = wallets
           /\ \A i \in DOMAIN txs : i # last'.id => txs'[i] = txs[i]]_vars

\* reject has just been made for a WITHDRAW, which is REJECTED, with funds
\* in the wallet.
C7_Witness ==
    /\ last.op = "rejectTransaction"
    /\ last.ret = TRUE
    /\ txs[last.id].type = "WITHDRAW"
    /\ txs[last.id].status = "REJECTED"
    /\ balanceOf(wallets, txs[last.id].user_id, txs[last.id].asset) >= txs[last.id].amount

\* The owner's only ACTIVE subscription is subscription i.
onlyActiveOf(i) ==
    \A j \in DOMAIN subs :
        (subs[j].user_id = subs[i].user_id /\ subs[j].status = "ACTIVE") => j = i

\* C8: a sweep that processes an ACTIVE subscription whose end date has been
\* reached leaves the owner's USDT wallet increased by the principal plus
\* that day's earnings, and the subscription COMPLETED.
C8_MaturityPaysPrincipalAndEarnings ==
    [][last'.op = "processEarnings"
        => \A i \in DOMAIN subs :
              (/\ subs[i].status = "ACTIVE"
               /\ now >= subs[i].end_date
               /\ onlyActiveOf(i)
               /\ hasWallet(wallets, subs[i].user_id, "USDT"))
              => /\ balanceOf(wallets', subs[i].user_id, "USDT")
                      = balanceOf(wallets, subs[i].user_id, "USDT") + subs[i].amount
                        + (subs[i].amount * plans[subs[i].plan_id].apy) \div 365000
                 /\ subs'[i].status = "COMPLETED"]_vars

\* C9: a COMPLETED subscription never changes again, and a sweep neither
\* writes a wallet nor inserts a transaction for an owner none of whose
\* subscriptions is ACTIVE.
C9_NoAccrualAfterCompleted ==
    [][\A i \in DOMAIN subs :
          subs[i].status = "COMPLETED" =>
             /\ subs'[i] = subs[i]
             /\ (/\ last'.op = "processEarnings"
                 /\ \A j \in DOMAIN subs :
                       subs[j].user_id = subs[i].user_id => subs[j].status # "ACTIVE")
                => /\ \A a \in AllAssets :
                         hasWallet(wallets, subs[i].user_id, a) =>
                            balanceOf(wallets', subs[i].user_id, a)
                               = balanceOf(wallets, subs[i].user_id, a)
                   /\ \A k \in DOMAIN txs' :
                         k > Len(txs) => txs'[k].user_id # subs[i].user_id]_vars

\* A sweep has just run that selected no subscription, a subscription being
\* COMPLETED (by an earlier sweep, every subscription having started ACTIVE).
C9_Witness ==
    /\ last.op = "processEarnings"
    /\ last.id = 0
    /\ \E i \in DOMAIN subs : subs[i].status = "COMPLETED" /\ subs[i].total_earned > 0

\* C10: a successful cancel fewer than 30 whole days after the start deducts
\* 5% of the principal; at 30 days or more it deducts nothing: the refund
\* recorded, and credited to the owner's USDT wallet, is the full principal.
C10_PenaltyBoundary ==
    [][(last'.op = "cancelInvestment" /\ last'.ret = "ok")
        => LET sub == subs[last'.id]
               days == now - sub.start_date
               refund == IF days < 30 THEN sub.amount - (sub.amount * 5) \div 100
                         ELSE sub.amount
           IN /\ Len(txs') = Len(txs) + 1
              /\ txs'[Len(txs')].amount = refund
              /\ txs'[Len(txs')].user_id = sub.user_id
              /\ hasWallet(wallets, sub.user_id, "USDT") =>
                    balanceOf(wallets', sub.user_id, "USDT")
                       = balanceOf(wallets, sub.user_id, "USDT") + refund
              /\ subs'[last'.id].status = "CANCELLED"]_vars

\* A cancel 30 days or more after the start has just refunded the full
\* principal, and an earlier cancel, 29 days after the start, refunded 95%.
C10_Witness ==
    /\ last.op = "cancelInvestment"
    /\ last.ret = "ok"
    /\ now - subs[last.id].start_date >= 30
    /\ txs[Len(txs)].amount = subs[last.id].amount
    /\ subs[last.id].total_earned > 0
    /\ \E i \in DOMAIN subs, k \in DOMAIN txs :
          /\ subs[i].status = "CANCELLED"
          /\ txs[k].notes = "refund"
          /\ txs[k].amount = (subs[i].amount * 95) \div 100

\* C11: for every cancel that succeeds, the refund (the amount of the refund
\* transaction, credited to the owner's USDT wallet) plus the penalty is the
\* subscription's principal.
C11_RefundPlusPenalty ==
    \A u \in Owners, i \in DOMAIN subs :
        LET r == cancelInvestment(wallets, txs, subs, u, i, now, NoFault) IN
        r.ret = "ok" =>
           /\ r.info.refundAmount + r.info.penalty = subs[i].amount
           /\ r.info.penalty >= 0
           /\ r.txs = Append(txs, Tx(u, "DEPOSIT", "USDT", r.info.refundAmount,
                                     "COMPLETED", "", "", "", "refund"))
           /\ hasWallet(wallets, u, "USDT") =>
                 balanceOf(r.wallets, u, "USDT")
                    = balanceOf(wallets, u, "USDT") + r.info.refundAmount

\* A cancel with a penalty has just succeeded for a subscription that had
\* earned something.
C11_Witness ==
    /\ last.op = "cancelInvestment"
    /\ last.ret = "ok"
    /\ subs[last.id].total_earned > 0
    /\ txs[Len(txs)].notes = "refund"
    /\ txs[Len(txs)].amount < subs[last.id].amount

\* C12: createInvestment with an amount below the plan's min_amount returns
\* the minimum-amount error and changes no wallet, no subscription (and no
\* transaction).
C12_BelowMinimum ==
    \A u \in Clients, q \in InvestmentRequests :
        (/\ q.planId \in DOMAIN plans
         /\ plans[q.planId].is_active
         /\ q.amount < plans[q.planId].min_amount)
        => createInvestment(wallets, txs, plans, u, q, NoFault)
             = [wallets |-> wallets, txs |-> txs, ret |-> "Minimum investment amount"]

C12_BelowMinimumStep ==
    (last'.op = "createInvestment" /\ last'.ret = "Minimum investment amount")
    => UNCHANGED <<wallets, txs, subs>>

C12_BelowMinimumRejected ==
    /\ []C12_BelowMinimum
    /\ [][C12_BelowMinimumStep]_vars

\* createInvestment has just refused an amount below the minimum that the
\* wallet could have paid.
C12_Witness ==
    /\ last.op = "createInvestment"
    /\ last.ret = "Minimum investment amount"
    /\ \E q \in InvestmentRequests :
          /\ q.amount < plans[q.planId].min_amount
          /\ balanceOf(wallets, "alice", q.asset) >= q.amount

\* C13: createInvestment of a valid request (active plan, amount in range,
\* balance >= amount) succeeds, debits the wallet by the principal and leaves
\* a COMPLETED INVEST transaction; and every COMPLETED INVEST transaction has
\* a subscription of its owner for its amount.
C13_InvestAllEffects ==
    /\ \A u \in Clients, q \in InvestmentRequests :
          (/\ validateInvestment(plans, q) = ""
           /\ hasWallet(wallets, u, q.asset)
           /\ balanceOf(wallets, u, q.asset) >= q.amount)
          => LET r == createInvestment(wallets, txs, plans, u, q, NoFault) IN
             /\ r.ret = "ok"
             /\ balanceOf(r.wallets, u, q.asset) = balanceOf(wallets, u, q.asset) - q.amount
             /\ Len(r.txs) = Len(txs) + 1
             /\ r.txs[Len(r.txs)].status = "COMPLETED"
    /\ \A k \in DOMAIN txs :
          (txs[k].type = "INVEST" /\ txs[k].status = "COMPLETED")
          => \E i \in DOMAIN subs :
                subs[i].user_id = txs[k].user_id /\ subs[i].amount = txs[k].amount

\* C14: a transaction whose status is COMPLETED or REJECTED keeps that status
\* in every step.
C14_TerminalImmutable ==
    [][\A i \in DOMAIN txs :
          txs[i].status \in {"COMPLETED", "REJECTED"}
          => txs'[i].status = txs[i].status]_vars

\* C15: approve of a transaction that is not a PENDING WITHDRAW fails and
\* changes no transaction and no wallet.
C15_ApproveNotPending ==
    [][(last'.op = "approveTransaction" /\ ~isPendingWithdraw(txs[last'.id]))
        => /\ last'.ret = FALSE
           /\ txs' = txs
           /\ wallets' = wallets]_vars

\* C16: no createTransaction call inserts a transaction whose amount is <= 0
\* (such a request is rejected before any mutation).
C16_NonPositiveRejected ==
    [][last'.op = "createTransaction"
        => \A k \in DOMAIN txs' : k > Len(txs) => txs'[k].amount > 0]_vars

\* The sum of the amounts of the first n transactions that are COMPLETED
\* credits (type DEPOSIT) of the wallet of `user` in `asset`.
RECURSIVE creditedTo(_, _, _, _)
creditedTo(t, n, user, asset) ==
    IF n = 0 THEN 0
    ELSE creditedTo(t, n - 1, user, asset)
         + (IF /\ t[n].user_id = user
               /\ t[n].asset = asset
               /\ t[n].type = "DEPOSIT"
               /\ t[n].status = "COMPLETED"
            THEN t[n].amount ELSE 0)

\* C17: whatever the interleaving of deposits and accrual credits on a
\* wallet, once the calls have returned the balance is the initial balance
\* (0) plus the sum of the amounts credited.  (Runs in which a subscription
\* matured are left out: its principal credit is not part of this claim.)
C17_NoLostUpdate ==
    (/\ \A c \in CallIds : calls[c] = Idle
     /\ \A k \in DOMAIN txs : txs[k].notes # "principal")
    => \A u \in Owners :
          hasWallet(wallets, u, "USDT")
          => balanceOf(wallets, u, "USDT") = creditedTo(txs, Len(txs), u, "USDT")

\* C18: two processEarnings calls are never both inside the loop over the
\* selected subscriptions.
C18_NoOverlappingSweeps ==
    \A c \in CallIds, d \in CallIds :
        (calls[c].op = "processEarnings" /\ calls[d].op = "processEarnings") => c = d

\* C21: whatever the interleaving of cancelInvestment and processEarnings, a
\* subscription that is CANCELLED or COMPLETED keeps its status and its
\* earned-to-date in every step.
C21_TerminalSubscriptionImmutable ==
    [][\A i \in DOMAIN subs :
          subs[i].status \in {"CANCELLED", "COMPLETED"}
          => /\ subs'[i].status = subs[i].status
             /\ subs'[i].total_earned = subs[i].total_earned]_vars

\* C22: every sweep adds to an ACTIVE subscription's earned-to-date the daily
\* earnings at the rate its plan had when the subscription was created,
\* whatever updatePlan has done to the plan since.
C22_RateNotRetroactive ==
    [][last'.op = "processEarnings"
        => \A i \in DOMAIN subs :
              subs[i].status = "ACTIVE"
              => subs'[i].total_earned
                   = subs[i].total_earned
                     + dailyEarnings(subs[i].amount, InitPlans[subs[i].plan_id].apy)]_vars

\* C23: when the write of total_earned or the earnings credit fails for one
\* subscription in a sweep, that subscription is left as it was (and, when it
\* is its owner's only ACTIVE one, so are the owner's wallet and
\* transactions), and every other ACTIVE subscription is still accrued.
C23_SweepFailureIsolated ==
    [][(/\ last'.op = "processEarnings"
        /\ last'.fault.at \in {"setTotalEarned", "creditEarnings"})
        => LET i == last'.fault.sub IN
           /\ subs'[i] = subs[i]
           /\ onlyActiveOf(i) =>
                 /\ \A a \in AllAssets :
                       hasWallet(wallets, subs[i].user_id, a) =>
                          balanceOf(wallets', subs[i].user_id, a)
                             = balanceOf(wallets, subs[i].user_id, a)
                 /\ \A k \in DOMAIN txs' :
                       k > Len(txs) => txs'[k].user_id # subs[i].user_id
           /\ \A j \in DOMAIN subs :
                 (j # i /\ subs[j].status = "ACTIVE")
                 => subs'[j].total_earned
                      = subs[j].total_earned
                        + dailyEarnings(subs[j].amount, plans[subs[j].plan_id].apy)]_vars

\* C24: the balance of every USDT wallet is the sum of the COMPLETED credits
\* (accrual, principal return, refund) recorded for it.
C24_CreditsMatchBalance ==
    \A u \in Owners :
        hasWallet(wallets, u, "USDT")
        => creditedTo(txs, Len(txs), u, "USDT") = balanceOf(wallets, u, "USDT")

\* C25: every COMPLETED INVEST transaction names an existing, active plan
\* and has min_amount <= amount <= max_amount (no upper bound when
\* max_amount is absent).
C25_InvestWithinPlanRange ==
    \A k \in DOMAIN txs :
        (txs[k].type = "INVEST" /\ txs[k].status = "COMPLETED")
        => /\ txs[k].plan_id \in DOMAIN plans
           /\ plans[txs[k].plan_id].is_active
           /\ plans[txs[k].plan_id].min_amount <= txs[k].amount
           /\ \/ plans[txs[k].plan_id].max_amount = 0
              \/ txs[k].amount <= plans[txs[k].plan_id].max_amount

\* The minimum withdrawal of each asset, in 1/10000 of the asset.
withdrawMinimum(asset) ==
    CASE asset = "BTC" -> 10
      [] asset = "ETH" -> 100
      [] asset = "USDT" -> 100000
      [] asset = "USDC" -> 100000

WithdrawProbes ==
    {Request("WITHDRAW", a, m, "", "", "") :
        a \in AllAssets, m \in {9, 10, 99, 100, 99999, 100000}}

\* C26: a WITHDRAW below the asset's minimum, on a wallet that does not
\* exist, or above the balance is refused by createTransaction: no
\* transaction is inserted and no balance changes.
C26_Refused ==
    \A u \in Owners, q \in WithdrawProbes :
        (\/ ~hasWallet(wallets, u, q.asset)
         \/ q.amount > balanceOf(wallets, u, q.asset)
         \/ q.amount < withdrawMinimum(q.asset))
        => LET r == submit(wallets, txs, u, q, 0, NoFault) IN
           /\ r.ret # "ok"
           /\ r.txs = txs
           /\ r.wallets = wallets

C26_RefusedStep ==
    (last'.op = "createTransaction" /\ last'.ret # "ok")
    => UNCHANGED <<wallets, txs>>

C26_WithdrawRefused ==
    /\ []C26_Refused
    /\ [][C26_RefusedStep]_vars

\* A WITHDRAW below the minimum has just been refused although the wallet
\* holds more than its amount, and the BTC wallet holds funds.
C26_Witness ==
    /\ last.op = "createTransaction"
    /\ last.ret = "Minimum amount"
    /\ balanceOf(wallets, "alice", "USDT") >= 99999
    /\ balanceOf(wallets, "alice", "BTC") >= 10

\* C27: a DEPOSIT of a > 0 into an existing wallet, whatever its balance,
\* adds exactly a to that wallet, changes no other wallet and inserts one
\* transaction, COMPLETED.
C27_DepositCredits ==
    \A u \in Owners, a \in AllAssets, m \in DepositAmounts :
        (m > 0 /\ hasWallet(wallets, u, a))
        => submit(wallets, txs, u, Request("DEPOSIT", a, m, "", "", ""), 0, NoFault)
             = [wallets |-> [wallets EXCEPT ![<<u, a>>] = @ + m],
                txs |-> Append(txs, Tx(u, "DEPOSIT", a, m, "COMPLETED", "", "", "", "")),
                ret |-> "ok"]

\* A DEPOSIT larger than the balance the wallet had has just been COMPLETED.
C27_Witness ==
    /\ last.op = "createTransaction"
    /\ last.ret = "ok"
    /\ last.id = Len(txs)
    /\ Len(txs) > 0
    /\ txs[Len(txs)].type = "DEPOSIT"
    /\ txs[Len(txs)].status = "COMPLETED"
    /\ txs[Len(txs)].amount > 0
    /\ balanceOf(wallets, txs[Len(txs)].user_id, txs[Len(txs)].asset)
          < 2 * txs[Len(txs)].amount

\* C28: a createTransaction call that leaves a COMPLETED EXCHANGE of amount a
\* has decreased the source wallet by a and increased the destination wallet
\* by a * rate * (1 - fee) for a rate of the feed (one wallet changing by
\* both when source and destination are the same asset).
C28_ExchangeAmounts ==
    [][(/\ last'.op = "createTransaction"
        /\ Len(txs') = Len(txs) + 1
        /\ txs'[Len(txs')].type = "EXCHANGE"
        /\ txs'[Len(txs')].status = "COMPLETED")
        => LET row == txs'[Len(txs')]
               u == row.user_id
           IN \E x \in Rates :
                 IF row.from_asset # row.to_asset
                 THEN /\ balanceOf(wallets', u, row.from_asset)
                           = balanceOf(wallets, u, row.from_asset) - row.amount
                      /\ balanceOf(wallets', u, row.to_asset)
                           = balanceOf(wallets, u, row.to_asset)
                             + receivedAmount(row.amount, x)
                 ELSE balanceOf(wallets', u, row.from_asset)
                        = balanceOf(wallets, u, row.from_asset) - row.amount
                          + receivedAmount(row.amount, x)]_vars

\* C30: a createTransaction call whose transaction ends REJECTED does not
\* return normally.
C30_FailurePropagated ==
    [][(/\ last'.op = "createTransaction"
        /\ Len(txs') = Len(txs) + 1
        /\ txs'[Len(txs')].status = "REJECTED")
        => last'.ret # "ok"]_vars

\* C29: when the insert of a notification or of an audit entry fails, every
\* handler leaves the wallets, the transactions and the subscriptions exactly
\* as it does when the insert succeeds, and returns the same result: the
\* ledger mutation is neither blocked nor rolled back and success is still
\* reported.
C29_SilentFailures ==
    \A pt \in SilentPoints :
       /\ \A u \in Clients, q \in Requests :
             \A x \in (IF q.type = "EXCHANGE" THEN Rates ELSE {0}) :
                submit(wallets, txs, u, q, x, Fault(pt, 0))
                   = submit(wallets, txs, u, q, x, NoFault)
       /\ \A id \in DOMAIN txs :
             /\ approveTransaction(wallets, txs, id, Fault(pt, 0))
                   = approveTransaction(wallets, txs, id, NoFault)
             /\ rejectTransaction(wallets, txs, id, Fault(pt, 0))
                   = rejectTransaction(wallets, txs, id, NoFault)
       /\ \A u \in Owners, id \in DOMAIN subs :
             cancelInvestment(wallets, txs, subs, u, id, now, Fault(pt, 0))
                = cancelInvestment(wallets, txs, subs, u, id, now, NoFault)
       /\ \A id \in DOMAIN subs :
             processEarnings(wallets, txs, subs, plans, now, Fault(pt, id))
                = processEarnings(wallets, txs, subs, plans, now, NoFault)

\* A deposit whose notification failed was credited, is COMPLETED and was
\* answered with success.
C29_Witness ==
    /\ last.op = "createTransaction"
    /\ last.fault = Fault("notification", 0)
    /\ last.ret = "ok"
    /\ txs[last.id].type = "DEPOSIT"
    /\ txs[last.id].status = "COMPLETED"
    /\ balanceOf(wallets, txs[last.id].user_id, txs[last.id].asset) >= txs[last.id].amount

\* C31: when the balance write of a DEPOSIT fails in the store, the call
\* leaves every wallet balance as it was and the transaction it inserted is
\* REJECTED (never COMPLETED without the credit).
C31_FailedDepositRejected ==
    [][(/\ last'.op = "createTransaction"
        /\ last'.fault = Fault("creditWallet", 0)
        /\ Len(txs') = Len(txs) + 1
        /\ txs'[Len(txs')].type = "DEPOSIT")
       => (/\ wallets' = wallets
           /\ txs'[Len(txs')].status = "REJECTED")]_vars

\* A deposit into an existing wallet whose balance write failed.
C31_Witness ==
    /\ last.op = "createTransaction"
    /\ last.fault = Fault("creditWallet", 0)
    /\ last.id = Len(txs)
    /\ last.id > 0
    /\ txs[last.id].type = "DEPOSIT"
    /\ txs[last.id].amount > 0
    /\ txs[last.id].status = "REJECTED"
    /\ hasWallet(wallets, txs[last.id].user_id, txs[last.id].asset)

\* What the first n subscriptions of owner u have earned to date.
RECURSIVE earnedBy(_, _, _)
earnedBy(s, n, u) ==
    IF n = 0 THEN 0
    ELSE earnedBy(s, n - 1, u) + (IF s[n].user_id = u THEN s[n].total_earned ELSE 0)

\* The principal of the first n subscriptions of owner u that went from
\* ACTIVE in s to COMPLETED in s1.
RECURSIVE maturedFor(_, _, _, _)
maturedFor(s, s1, n, u) ==
    IF n = 0 THEN 0
    ELSE maturedFor(s, s1, n - 1, u)
         + (IF s[n].user_id = u /\ s[n].status = "ACTIVE" /\ s1[n].status = "COMPLETED"
            THEN s[n].amount ELSE 0)

\* C32: a sweep that increases the total_earned of an owner's subscriptions
\* credits the owner's USDT wallet with exactly that increase (besides the
\* principal of the subscriptions it completes); total_earned never grows
\* without the matching wallet credit.
C32_EarnedIsCredited ==
    [][last'.op = "processEarnings"
       => \A u \in Owners :
             LET earned == earnedBy(subs', Len(subs'), u) - earnedBy(subs, Len(subs), u)
             IN earned > 0
                => /\ hasWallet(wallets, u, "USDT")
                   /\ balanceOf(wallets', u, "USDT") - balanceOf(wallets, u, "USDT")
                        = earned + maturedFor(subs, subs', Len(subs), u)]_vars

\* The sum of what the first n transactions, as COMPLETED withdrawals, take
\* from the wallet of `user` in `asset`: the amount and the network fee.
RECURSIVE debitedFrom(_, _, _, _)
debitedFrom(t, n, user, asset) ==
    IF n = 0 THEN 0
    ELSE debitedFrom(t, n - 1, user, asset)
         + (IF /\ t[n].user_id = user
               /\ t[n].asset = asset
               /\ t[n].type = "WITHDRAW"
               /\ t[n].status = "COMPLETED"
            THEN t[n].amount + getNetworkFee(asset) ELSE 0)

\* C33: whatever the interleaving of approve and reject calls on PENDING
\* withdrawals, once the calls have returned each wallet has been debited
\* once for every withdrawal that ended COMPLETED and for no other: the
\* balance is the deposits credited less the COMPLETED withdrawals.
C33_DebitedIffCompleted ==
    (\A c \in CallIds : calls[c] = Idle)
    => \A u \in Clients :
          balanceOf(wallets, u, "USDT")
             = creditedTo(txs, Len(txs), u, "USDT") - debitedFrom(txs, Len(txs), u, "USDT")

\* C34: whatever the interleaving of cancelInvestment and processEarnings,
\* the principal of a subscription is paid to its owner's wallet at most
\* once: the owner of the one subscription never has both a cancellation
\* refund and a principal return recorded and credited.
C34_PrincipalReturnedOnce ==
    \A i \in DOMAIN subs :
        hasWallet(wallets, subs[i].user_id, "USDT")
        => ~(/\ \E k \in DOMAIN txs :
                    txs[k].user_id = subs[i].user_id /\ txs[k].notes = "refund"
             /\ \E k \in DOMAIN txs :
                    txs[k].user_id = subs[i].user_id /\ txs[k].notes = "principal"
             /\ balanceOf(wallets, subs[i].user_id, "USDT") >= 2 * subs[i].amount)

\* C35: when createTransaction returns for a validated DEPOSIT, EXCHANGE or
\* INVEST request, the row it inserted is COMPLETED or REJECTED; the rows
\* that are PENDING are WITHDRAW rows only.
C35_TerminalAtReturn ==
    /\ [](\A k \in DOMAIN txs : txs[k].status = "PENDING" => txs[k].type = "WITHDRAW")
    /\ [][(last'.op = "createTransaction" /\ Len(txs') = Len(txs) + 1)
          => \/ txs'[Len(txs')].type = "WITHDRAW"
             \/ txs'[Len(txs')].status \in {"COMPLETED", "REJECTED"}]_vars

\* An exchange that createTransaction left REJECTED, beside a withdrawal
\* that is PENDING.
C35_Witness ==
    /\ last.op = "createTransaction"
    /\ last.ret = "ok"
    /\ last.id = Len(txs)
    /\ last.id > 0
    /\ txs[last.id].type = "EXCHANGE"
    /\ txs[last.id].status = "REJECTED"
    /\ \E k \in DOMAIN txs : txs[k].type = "WITHDRAW" /\ txs[k].status = "PENDING"

\* Wallets w1 and subscriptions s1 are w0 and s0 for every owner but u.
sameForOthers(w1, w0, s1, s0, u) ==
    /\ \A id \in DOMAIN w0 : id[1] # u => (id \in DOMAIN w1 /\ w1[id] = w0[id])
    /\ \A id \in DOMAIN w1 : id[1] # u => id \in DOMAIN w0
    /\ Len(s1) = Len(s0)
    /\ \A i \in DOMAIN s0 : s0[i].user_id # u => s1[i] = s0[i]

\* C36: in every reachable state, createTransaction and cancelInvestment
\* called by an owner, the approval and the rejection of an owner's
\* transaction, and the sweep's iteration for an owner's subscription leave
\* the wallets and the subscriptions of every other owner as they were.
C36_OwnerFrame ==
    /\ \A u \in Owners : \A q \in Requests \cup OwnerRequests[u] :
          \A x \in (IF q.type = "EXCHANGE" THEN Rates ELSE {0}) :
             sameForOthers(submit(wallets, txs, u, q, x, NoFault).wallets, wallets,
                           subs, subs, u)
    /\ \A id \in DOMAIN txs :
          /\ sameForOthers(approveTransaction(wallets, txs, id, NoFault).wallets,
                           wallets, subs, subs, txs[id].user_id)
          /\ sameForOthers(rejectTransaction(wallets, txs, id, NoFault).wallets,
                           wallets, subs, subs, txs[id].user_id)
    /\ \A u \in Owners, id \in DOMAIN subs :
          LET r == cancelInvestment(wallets, txs, subs, u, id, now, NoFault)
          IN sameForOthers(r.wallets, wallets, r.subs, subs, u)
    /\ \A i \in activeSubscriptions(subs) :
          LET r == processSubscription(
                       [wallets |-> wallets, txs |-> txs, subs |-> subs,
                        aborted |-> FALSE],
                       plans, subs[i], i, now, NoFault)
          IN sameForOthers(r.wallets, wallets, r.subs, subs, subs[i].user_id)

\* alice cancelled her subscription while bob holds a funded wallet and a
\* subscription that has earned.
C36_Witness ==
    /\ last.op = "cancelInvestment"
    /\ last.ret = "ok"
    /\ subs[last.id].user_id = "alice"
    /\ subs[last.id].status = "CANCELLED"
    /\ balanceOf(wallets, "alice", "USDT") > 0
    /\ balanceOf(wallets, "bob", "BTC") > 0
    /\ \E i \in DOMAIN subs :
          /\ subs[i].user_id = "bob"
          /\ subs[i].status = "ACTIVE"
          /\ subs[i].total_earned > 0

\* C37: in every reachable state (balances negative, zero and positive), for
\* every wallet and amount, adjustUserWallet with SUBTRACT returns true,
\* sets the balance to max(0, balance - amount), which is never negative,
\* leaves the other wallets alone, and appends one COMPLETED WITHDRAW row
\* that carries the amount asked for, clamped or not.
C37_SubtractClamped ==
    \A u \in Owners, a \in Assets, m \in AdjustAmounts :
        hasWallet(wallets, u, a)
        => LET r == adjustUserWallet(wallets, txs, u, a, m, "SUBTRACT", NoFault)
               row == r.txs[Len(r.txs)]
           IN /\ r.ret = TRUE
              /\ balanceOf(r.wallets, u, a) >= 0
              /\ balanceOf(r.wallets, u, a)
                   = (IF balanceOf(wallets, u, a) - m > 0
                      THEN balanceOf(wallets, u, a) - m ELSE 0)
              /\ \A id \in DOMAIN wallets \ {<<u, a>>} : r.wallets[id] = wallets[id]
              /\ Len(r.txs) = Len(txs) + 1
              /\ row.type = "WITHDRAW"
              /\ row.status = "COMPLETED"
              /\ row.user_id = u
              /\ row.asset = a
              /\ row.amount = m

\* A wallet holding 10 USDT was adjusted by SUBTRACT 15: it is at 0 and the
\* COMPLETED WITHDRAW row says 15.
C37_Witness ==
    /\ last.op = "adjustUserWallet"
    /\ last.ret = TRUE
    /\ Len(txs) = 2
    /\ txs[1].type = "DEPOSIT" /\ txs[1].status = "COMPLETED" /\ txs[1].amount = 100000
    /\ txs[2].type = "WITHDRAW" /\ txs[2].status = "COMPLETED" /\ txs[2].amount = 150000
    /\ txs[2].notes = "adjustment"
    /\ txs[1].user_id = txs[2].user_id
    /\ balanceOf(wallets, txs[2].user_id, "USDT") = 0

\* C19: a cancel that reports success has set the subscription CANCELLED and
\* credited the owner's USDT wallet, and a cancel that sets the subscription
\* CANCELLED has credited the wallet.
C19_CancelAllOrNothing ==
    [][last'.op = "cancelInvestment"
        => LET i == last'.id
               u == subs[i].user_id
               credited == /\ hasWallet(wallets, u, "USDT")
                           /\ balanceOf(wallets', u, "USDT")
                                 = balanceOf(wallets, u, "USDT")
                                   + cancelTerms(subs[i], now).refundAmount
           IN /\ last'.ret = "ok" => (subs'[i].status = "CANCELLED" /\ credited)
              /\ (subs[i].status = "ACTIVE" /\ subs'[i].status = "CANCELLED")
                    => credited]_vars

\* C20: cancelInvestment by someone who is not the owner, or of a
\* subscription that is not ACTIVE, fails and changes no wallet, subscription
\* or transaction; so there are as many refunds as CANCELLED subscriptions.
C20_Refused ==
    \A u \in Owners, i \in DOMAIN subs :
        (subs[i].user_id # u \/ subs[i].status # "ACTIVE")
        => LET r == cancelInvestment(wallets, txs, subs, u, i, now, NoFault) IN
           /\ r.ret # "ok"
           /\ r.wallets = wallets
           /\ r.txs = txs
           /\ r.subs = subs

C20_RefundOnce ==
    Cardinality({k \in DOMAIN txs : txs[k].notes = "refund"})
       = Cardinality({i \in DOMAIN subs : subs[i].status = "CANCELLED"})

C20_RefusedStep ==
    (last'.op = "cancelInvestment" /\ last'.ret # "ok")
    => UNCHANGED <<wallets, txs, subs>>

C20_CancelPreconditions ==
    /\ [](C20_Refused /\ C20_RefundOnce)
    /\ [][C20_RefusedStep]_vars

\* The cancel of a subscription that an earlier cancel had set CANCELLED has
\* just been refused.
C20_Witness ==
    /\ last.op = "cancelInvestment"
    /\ last.ret = "Investment is not active"
    /\ subs[last.id].status = "CANCELLED"

====
